---- MODULE Spec2Model ----
(***************************************************************************)
(* Model of the velux_active integration: the vendor API client            *)
(* (api.py), the record mapper and the refresh cycle of the update         *)
(* coordinator (__init__.py), the registry, the platforms and the          *)
(* entities (cover.py, sensor.py, binary_sensor.py).                       *)
(*                                                                         *)
(* Spec follows the client and the coordinator through the setup and the   *)
(* polling, with every answer of the vendor and a moving clock. SpecEntry  *)
(* follows the config entry: the same setup and cycles, then the registry, *)
(* the platforms, the entities and the unloading, with a clock that stands *)
(* still. SpecConvert, SpecToken and SpecHome apply one pure operation.    *)
(*                                                                         *)
(* Every request to the vendor is two steps: the request is sent and the   *)
(* task waits (a position that ends in _wait), then the answer is taken.   *)
(* While the task waits, the host can read an entity or unload the entry.  *)
(*                                                                         *)
(* Python values are modelled as follows.                                  *)
(*   - None / an absent optional object: the empty sequence << >>; a       *)
(*     present object x: the one-element sequence << x >>.                 *)
(*   - a JSON object / keyword dictionary: a function from key strings to  *)
(*     value strings; a JSON null value is the string "null".              *)
(*   - datetime / timedelta: integers, in seconds.                         *)
(*   - an exception: the name of its class, "" when nothing was raised.    *)
(***************************************************************************)
EXTENDS Integers, Sequences, FiniteSets, TLC

VARIABLES
    now,         \* the wall clock read by datetime.now()
    auth_token,  \* VeluxActiveAPI.auth_token: << >> (None) or << token >>
    next_oid,    \* identity given to the next AuthToken object constructed
    pc,          \* position of the setup / refresh task
    first,       \* TRUE when the running (or last) cycle is the first refresh of setup
    homes,       \* async_update_data: the list returned by get_home_data
    idx,         \* async_update_data: position of the for loop over homes
    data,        \* async_update_data: the dict built by the running cycle
    err,         \* exception raised inside the try block of the cycle, "" when none
    published,   \* coordinator.data: << >> (None) or << snapshot >>
    outcome,     \* how the most recent finished cycle left async_update_data
    sent,        \* requests sent since the running (or last) cycle started
    replies,     \* the well-formed replies received by the running cycle
    last_good,   \* the replies of the most recent successful cycle
    probe,       \* argument and result of the pure operation last applied
    domain,      \* hass.data[DOMAIN]: << >> (the empty dict) or << registry >>
    platforms,   \* the platforms whose async_setup_entry has run
    entities,    \* the list each platform handed to async_add_entities
    unloaded     \* position and result of async_unload_entry, << >> when it
                 \* was not called

\* the registry, the platforms and the entities of the config entry
entryVars == << domain, platforms, entities, unloaded >>

vars == << now, auth_token, next_oid, pc, first, homes, idx, data, err,
           published, outcome, sent, replies, last_good, probe, entryVars >>

-----------------------------------------------------------------------------
(* Bounds of the model *)

\* the clock stops advancing once it has reached MaxNow
MaxNow == 61
\* longest home list the vendor returns
MaxHomes == 2
\* largest safety threshold, in minutes above 2h59m, asked of valid_in
MaxMarginSteps == 2

-----------------------------------------------------------------------------
(* Small helpers for Python dictionaries *)

Null == "null"

Keys(d) == DOMAIN d

Without(d, ks) == [k \in (DOMAIN d) \ ks |-> d[k]]

Some(x) == << x >>

IsNone(o) == o = << >>

Get(o) == o[1]

-----------------------------------------------------------------------------
(* api.py: the dataclasses of the four device kinds *)

GatewayFields ==
    { "home", "busy", "calibrating", "firmware_revision_netatmo",
      "firmware_revision_thirdparty", "hardware_version", "id", "is_raining",
      "last_seen", "locked", "locking", "name", "pairing", "secure", "type",
      "wifi_strength", "wifi_state", "outdated_weather_forecast" }

GatewayDefaults == { "outdated_weather_forecast" }

WindowFields ==
    { "home", "current_position", "firmware_revision", "id", "last_seen",
      "manufacturer", "mode", "reachable", "silent", "target_position",
      "type", "velux_type", "bridge", "rain_position", "secure_position" }

ShutterFields ==
    { "home", "current_position", "firmware_revision", "id", "last_seen",
      "manufacturer", "mode", "reachable", "silent", "target_position",
      "type", "velux_type", "bridge" }

SwitchFields ==
    { "home", "battery_level", "battery_percent", "firmware_revision", "id",
      "last_seen", "reachable", "rf_strength", "type", "bridge",
      "battery_state", "rf_state" }

Kinds == { "Gateway", "Switch", "Shutter", "Window" }

FieldsOf(kind) ==
    CASE kind = "Gateway" -> GatewayFields
      [] kind = "Switch"  -> SwitchFields
      [] kind = "Shutter" -> ShutterFields
      [] kind = "Window"  -> WindowFields

DefaultsOf(kind) == IF kind = "Gateway" THEN GatewayDefaults ELSE {}

-----------------------------------------------------------------------------
(* api.py: VeluxHome and VeluxModule *)

\* VeluxHome(**home) raises TypeError unless id and name are both given,
\* and when the home has a key "self" (two values for the parameter self)
VeluxHomeOK(j) == {"id", "name"} \subseteq Keys(j) /\ "self" \notin Keys(j)

VeluxHomeNew(j) ==
    [id |-> j["id"], name |-> j["name"], kwargs |-> Without(j, {"id", "name"})]

\* VeluxModule(home, **module) raises TypeError unless id and type are given,
\* and when the module has a key "home" or "self" (two values for the
\* parameter)
VeluxModuleOK(m) ==
    /\ {"id", "type"} \subseteq Keys(m)
    /\ Keys(m) \cap {"home", "self"} = {}

VeluxModuleNew(home, m) ==
    [home |-> home, id |-> m["id"], type |-> m["type"],
     kwargs |-> Without(m, {"id", "type"})]

\* the attributes every Python object has: those of the class object
ObjectAttrs ==
    { "__class__", "__delattr__", "__dir__", "__doc__", "__eq__",
      "__format__", "__ge__", "__getattribute__", "__getstate__", "__gt__",
      "__hash__", "__init__", "__init_subclass__", "__le__", "__lt__",
      "__ne__", "__new__", "__reduce__", "__reduce_ex__", "__repr__",
      "__setattr__", "__sizeof__", "__str__", "__subclasshook__" }

\* the attributes hasattr(self, key) finds on a VeluxModule: the four
\* __init__ sets, the methods of the class, what a class statement adds
\* (__dict__, __module__, __weakref__) and what object gives
ModuleAttrs ==
    { "id", "type", "kwargs", "home", "keys", "items", "__getitem__",
      "__iter__", "__dict__", "__module__", "__weakref__" } \cup ObjectAttrs

\* VeluxModule.keys
ModuleKeys(status) == Keys(status.kwargs) \cup { "id", "type", "home" }

\* VeluxModule.__getitem__ raises KeyError for HasItem(status, key) = FALSE
HasItem(status, key) == key \in Keys(status.kwargs) \/ key \in ModuleAttrs

\* VeluxModule.__getitem__ for the keys that name a string: a key of kwargs
\* first, then the attribute; the other attributes are objects and methods,
\* given here by their name
GetItem(status, key) ==
    IF key \in Keys(status.kwargs) THEN status.kwargs[key]
    ELSE IF key = "id" THEN status.id
    ELSE IF key = "type" THEN status.type
    ELSE IF key = "home" THEN status.home
    ELSE IF key = "kwargs" THEN status.kwargs
    ELSE key

-----------------------------------------------------------------------------
(* __init__.py: _convert_status_to_sensor *)

\* a dataclass constructor called with **status: TypeError when a field
\* without default is missing or a keyword is no field
DataclassOK(kind, status) ==
    /\ (FieldsOf(kind) \ DefaultsOf(kind)) \subseteq ModuleKeys(status)
    /\ ModuleKeys(status) \subseteq FieldsOf(kind)

DataclassNew(kind, status) ==
    [kind |-> kind,
     home |-> status.home,
     id |-> status.id,
     fields |-> [k \in FieldsOf(kind) \ {"home"} |->
                   IF k \in ModuleKeys(status)
                   THEN GetItem(status, k) ELSE Null]]

\* VeluxGatewayData.update(data), d for data: every field of the dataclass
\* that is a key of d is set to its value, the other keys are passed over
GatewayUpdate(self, d) ==
    [kind |-> self.kind,
     home |-> IF "home" \in Keys(d) THEN d["home"] ELSE self.home,
     id |-> IF "id" \in Keys(d) THEN d["id"] ELSE self.id,
     fields |-> [k \in DOMAIN self.fields |->
                   IF k \in Keys(d) THEN d[k] ELSE self.fields[k]]]

\* the dataclass chosen by the match statements, "" when the record is dropped
KindOf(status) ==
    IF status.type = "NXG" THEN "Gateway"
    ELSE IF status.type = "NXS" THEN "Switch"
    ELSE IF status.type = "NXO"
         THEN IF ~HasItem(status, "velux_type") THEN ""
              ELSE IF GetItem(status, "velux_type") = "shutter" THEN "Shutter"
              ELSE IF GetItem(status, "velux_type") = "window" THEN "Window"
              ELSE ""
    ELSE ""

\* the exception _convert_status_to_sensor raises, "" when it returns
ConvertExc(status) ==
    IF status.type = "NXO" /\ ~HasItem(status, "velux_type") THEN "KeyError"
    ELSE IF KindOf(status) # "" /\ ~DataclassOK(KindOf(status), status)
    THEN "TypeError"
    ELSE ""

\* what _convert_status_to_sensor returns: << >> (None) or << device >>
ConvertStatusToSensor(status) ==
    IF KindOf(status) = "" THEN << >>
    ELSE Some(DataclassNew(KindOf(status), status))

-----------------------------------------------------------------------------
(* __init__.py: the inner loop of async_update_data over one home's statuses *)

RECURSIVE MapStatusesExc(_)
\* the exception the loop over statuses raises, "" when it completes
MapStatusesExc(statuses) ==
    IF statuses = << >> THEN ""
    ELSE IF ConvertExc(Head(statuses)) # "" THEN ConvertExc(Head(statuses))
    ELSE MapStatusesExc(Tail(statuses))

RECURSIVE MapStatuses(_)
\* the list devices the loop builds: the records that are not None, in order
MapStatuses(statuses) ==
    IF statuses = << >> THEN << >>
    ELSE ConvertStatusToSensor(Head(statuses)) \o MapStatuses(Tail(statuses))

-----------------------------------------------------------------------------
(* api.py: AuthToken *)

\* the lifetime the vendor declares in expires_in
VendorLifetime == 10800

\* mutant of RefreshMargin: the margin is the whole vendor lifetime
RefreshMarginThreeHours == 3 * 3600

\* timedelta(hours=2, minutes=59), the margin access_token asks for
RefreshMargin == 2 * 3600 + 59 * 60

\* a JSON value timedelta takes as a number of seconds: an integer or a
\* boolean; the others are strings, None among them
IsNumber(v) ==
    \/ ToString(v) \in { "TRUE", "FALSE" }
    \/ SubSeq(ToString(v), 1, 1) \in
          { "-", "0", "1", "2", "3", "4", "5", "6", "7", "8", "9" }

\* timedelta(seconds=v), in seconds: True is 1 and False is 0
Seconds(v) ==
    IF ToString(v) = "TRUE" THEN 1
    ELSE IF ToString(v) = "FALSE" THEN 0
    ELSE v

\* AuthToken(**json) raises TypeError unless the three parameters are given,
\* when the body has a key "self" (two values for the parameter self), and
\* when timedelta(seconds=expires_in) is asked of a value that is no number
AuthTokenOK(j) ==
    /\ {"access_token", "refresh_token", "expires_in"} \subseteq Keys(j)
    /\ "self" \notin Keys(j)
    /\ IsNumber(j["expires_in"])

\* AuthToken.__init__, constructed at time t as the object oid
AuthTokenNew(j, t, oid) ==
    [oid |-> oid,
     access_token |-> j.access_token,
     refresh_token |-> j.refresh_token,
     expires_in |-> Seconds(j.expires_in),
     created_at |-> t,
     expires_at |-> t + Seconds(j.expires_in)]

\* mutant of Expires: the comparison admits equality
ExpiresOrEqual(tok, time, t) == tok.expires_at <= t + time

\* AuthToken.expires(time), evaluated at time t
Expires(tok, time, t) == tok.expires_at < t + time

\* AuthToken.valid_in(time), evaluated at time t
ValidIn(tok, time, t) == tok.access_token # Null /\ ~Expires(tok, time, t)

-----------------------------------------------------------------------------
(* What the vendor may answer *)

\* ways a request fails: an HTTP error status, a transport error raised by
\* the session, a body that cannot be decoded
Failures == { "status", "network", "body" }

\* bodies of the token endpoint: the documented one, one whose access token
\* is null, one without expires_in and one whose expires_in is null
TokenReplies ==
    [access_token : {"a", Null}, refresh_token : {"r"},
     expires_in : {VendorLifetime}]
    \cup { [access_token |-> "a", refresh_token |-> "r"],
           [access_token |-> "a", refresh_token |-> "r", expires_in |-> Null] }

HomeH1A == [k \in {"id", "name"} |-> IF k = "id" THEN "h1" ELSE "A"]

HomeH2A == [k \in {"id", "name"} |-> IF k = "id" THEN "h2" ELSE "A"]

HomeNoName == [k \in {"id"} |-> "h2"]

HomeSamples == { HomeH1A, HomeH2A, HomeNoName }

RECURSIVE SeqsUpTo(_, _)
\* the sequences over S of length at most n
SeqsUpTo(S, n) ==
    IF n = 0 THEN { << >> }
    ELSE SeqsUpTo(S, n - 1) \cup
         { Append(s, x) : s \in { q \in SeqsUpTo(S, n - 1) : Len(q) = n - 1 },
                          x \in S }

HomeReplies == SeqsUpTo(HomeSamples, MaxHomes)

\* a raw module with the given id, type, further keys and velux_type value
RawModule(id, type, keys, vt) ==
    [k \in keys \cup {"id", "type"} |->
        IF k = "id" THEN id
        ELSE IF k = "type" THEN type
        ELSE IF k = "velux_type" THEN vt
        ELSE "v"]

\* the keys the vendor sends for a device of the kind, besides id and type
RawKeys(kind) == FieldsOf(kind) \ ({"home", "id", "type"} \cup DefaultsOf(kind))

ModWindow == RawModule("m1", "NXO", RawKeys("Window"), "window")

ModGateway == RawModule("m2", "NXG", RawKeys("Gateway"), "")

\* a gateway that carries the id of the window
ModGatewayM1 == RawModule("m1", "NXG", RawKeys("Gateway"), "")

ModUnknown == RawModule("m3", "NXD", {"reachable"}, "")

ModNoSubtype == RawModule("m4", "NXO", RawKeys("Shutter") \ {"velux_type"}, "")

ModNoType == [k \in {"id", "reachable"} |-> IF k = "id" THEN "m5" ELSE "v"]

\* module lists of the home-status endpoint
StatusReplies ==
    { << ModWindow, ModUnknown, ModGateway >>,
      << ModUnknown >>,
      << ModWindow, ModNoSubtype >>,
      << ModNoType >> }

-----------------------------------------------------------------------------
(* api.py: parsing of the fetched bodies *)

\* get_home_data: the list comprehension raises when a home lacks id or name
HomesParseOK(reply) == \A i \in 1..Len(reply) : VeluxHomeOK(reply[i])

ParseHomes(reply) == [i \in 1..Len(reply) |-> VeluxHomeNew(reply[i])]

\* get_home_statuses: the list comprehension raises on a module without id or type
StatusesParseOK(reply) == \A i \in 1..Len(reply) : VeluxModuleOK(reply[i])

ParseStatuses(home, reply) ==
    [i \in 1..Len(reply) |-> VeluxModuleNew(home, reply[i])]

-----------------------------------------------------------------------------
(* __init__.py: the dict data, keyed by VeluxHome (hash and equality by id) *)

DictHas(d, home) == \E i \in 1..Len(d) : d[i].home.id = home.id

\* mutant of DictSet: every assignment adds an entry
DictSetAppend(d, home, devices) ==
    Append(d, [home |-> home, devices |-> devices])

\* data[home] = {"devices": devices}: an equal key keeps its place and its key
\* object and takes the new value; a new key is appended
DictSet(d, home, devices) ==
    IF DictHas(d, home)
    THEN [i \in 1..Len(d) |->
            IF d[i].home.id = home.id
            THEN [home |-> d[i].home, devices |-> devices]
            ELSE d[i]]
    ELSE Append(d, [home |-> home, devices |-> devices])

-----------------------------------------------------------------------------
(* The requests the client sends *)

Req(kind, home_id) == [req |-> kind, home |-> home_id]

ReqPassword == Req("token:password", "")

ReqRefresh == Req("token:refresh_token", "")

ReqHomes == Req("gethomedata", "")

ReqStatus(home) == Req("homestatus", home.id)

NoReplies == [homes |-> << >>, statuses |-> << >>]

-----------------------------------------------------------------------------
(* The initial state: async_setup_entry has built the client and the        *)
(* coordinator and is about to authenticate (__init__.py, lines 31 to 65)   *)

\* __init__.py: PLATFORMS
PLATFORMS == { "cover", "sensor", "binary_sensor" }

\* the locals of the cycle and the coordinator before the first refresh
ProgramInit ==
    /\ first = FALSE
    /\ homes = << >>
    /\ idx = 0
    /\ data = << >>
    /\ err = ""
    /\ published = << >>
    /\ outcome = ""
    /\ sent = << >>
    /\ replies = NoReplies
    /\ last_good = << >>
    /\ domain = << >>
    /\ platforms = {}
    /\ entities = [p \in PLATFORMS |-> << >>]
    /\ unloaded = << >>

Init ==
    /\ ProgramInit
    /\ auth_token = << >>
    /\ next_oid = 0
    /\ pc = "setup_auth"
    /\ now = 0
    /\ probe = << >>

-----------------------------------------------------------------------------
(* The clock *)

Advances == { 60, 61 }

\* time passes while the task is suspended or between two cycles
Tick(d) ==
    /\ now + d <= MaxNow
    /\ now' = now + d
    /\ UNCHANGED << auth_token, next_oid, pc, first, homes, idx, data, err,
                    published, outcome, sent, replies, last_good, probe, entryVars >>

-----------------------------------------------------------------------------
(* api.py: VeluxActiveAPI.authenticate and refresh_access_token *)

\* mutant of StoreToken: the fields of the stored token object are overwritten
StoreTokenInPlace(j) ==
    IF IsNone(auth_token) THEN Some(AuthTokenNew(j, now, next_oid))
    ELSE Some([AuthTokenNew(j, now, next_oid) EXCEPT
                  !.oid = Get(auth_token).oid])

\* the stored token after AuthToken(**json) has been assigned to it
StoreToken(j) == Some(AuthTokenNew(j, now, next_oid))

\* identities are told apart from the one of the token being replaced
FreshOid == 1 - next_oid

\* the exception authenticate raises on a failed request: a response that is
\* not ok is an InvalidAuthError, a transport error and an undecodable body
\* are raised as they are
AuthenticateExc(failure) ==
    CASE failure = "status"  -> "InvalidAuthError"
      [] failure = "network" -> "ClientError"
      [] failure = "body"    -> "JSONDecodeError"

\* the exceptions authenticate can raise: those of a failed request, and the
\* TypeError of AuthToken(**json) on a body that lacks a parameter
AuthenticateExcs ==
    { AuthenticateExc(f) : f \in Failures } \cup
    { "TypeError" : j \in { t \in TokenReplies : ~AuthTokenOK(t) } }

\* the exception a fetch raises on a failed request: raise_for_status, the
\* session, the decoding of the body
FetchExc(failure) ==
    CASE failure = "status"  -> "ClientResponseError"
      [] failure = "network" -> "ClientError"
      [] failure = "body"    -> "JSONDecodeError"

\* the exceptions refresh_access_token can raise
RefreshExcs ==
    { FetchExc(f) : f \in Failures } \cup
    { "TypeError" : j \in { t \in TokenReplies : ~AuthTokenOK(t) } }

\* the exceptions get_home_data can raise
HomeDataExcs ==
    { FetchExc(f) : f \in Failures } \cup
    { "TypeError" : r \in { h \in HomeReplies : ~HomesParseOK(h) } }

\* the exception get_home_statuses and the loop over its result raise on a
\* reply, "" when the devices of the home are built
StatusesExc(home, reply) ==
    IF ~StatusesParseOK(reply) THEN "TypeError"
    ELSE MapStatusesExc(ParseStatuses(home, reply))

\* the exceptions the body of the loop over homes can raise for a home
HomeStatusesExcs(home) ==
    { FetchExc(f) : f \in Failures } \cup
    ({ StatusesExc(home, r) : r \in StatusReplies } \ { "" })

-----------------------------------------------------------------------------
(* homeassistant DataUpdateCoordinator, as async_setup_entry configures it:  *)
(* a cycle that returns publishes its result, a cycle that raises leaves     *)
(* coordinator.data alone; a failed first refresh fails the setup.           *)

\* the cycle returns data
FinishOk(result, log) ==
    /\ published' = Some(result)
    /\ outcome' = "ok"
    /\ last_good' = Some(log)
    /\ pc' = "idle"
    /\ first' = first
    /\ homes' = << >>
    /\ idx' = 0
    /\ data' = << >>
    /\ replies' = NoReplies

\* mutant of FinishRaise: a failed first refresh does not fail the setup
FinishRaiseSetupGoesOn(exc) ==
    /\ published' = published
    /\ outcome' = exc
    /\ last_good' = last_good
    /\ pc' = "idle"
    /\ first' = first
    /\ homes' = << >>
    /\ idx' = 0
    /\ data' = << >>
    /\ replies' = NoReplies

\* the cycle raises exc
FinishRaise(exc) ==
    /\ published' = published
    /\ outcome' = exc
    /\ last_good' = last_good
    /\ pc' = IF first THEN "setup_failed" ELSE "idle"
    /\ first' = first
    /\ homes' = << >>
    /\ idx' = 0
    /\ data' = << >>
    /\ replies' = NoReplies

-----------------------------------------------------------------------------
(* __init__.py: async_setup_entry *)

\* line 65, api.py line 150: authenticate hands the password grant to the
\* session and waits for the response
SetupAuthenticateSend ==
    /\ pc = "setup_auth"
    /\ sent' = << ReqPassword >>
    /\ pc' = "setup_auth_wait"
    /\ UNCHANGED << now, auth_token, next_oid, first, homes, idx, data, err,
                    published, outcome, replies, last_good, probe, entryVars >>

\* line 65: the response is ok and its body makes a token, which is stored;
\* the first refresh starts
SetupAuthenticateOk(j) ==
    /\ pc = "setup_auth_wait"
    /\ AuthTokenOK(j)
    /\ auth_token' = StoreToken(j)
    /\ next_oid' = FreshOid
    /\ pc' = "homes_token"
    /\ first' = TRUE
    /\ err' = ""
    /\ UNCHANGED << now, homes, idx, data, published, outcome, sent, replies,
                    last_good, probe, entryVars >>

\* line 65: the initial authenticate raises and the setup fails
SetupAuthenticateFail(exc) ==
    /\ pc = "setup_auth_wait"
    /\ sent' = sent
    /\ outcome' = exc
    /\ pc' = "setup_failed"
    /\ UNCHANGED << now, auth_token, next_oid, first, homes, idx, data, err,
                    published, replies, last_good, probe, entryVars >>

\* the host sets the entry up again: a new client and a new coordinator
SetupRetry ==
    /\ pc = "setup_failed"
    /\ pc' = "setup_auth"
    /\ auth_token' = << >>
    /\ published' = << >>
    /\ last_good' = << >>
    /\ outcome' = ""
    /\ sent' = << >>
    /\ first' = FALSE
    /\ err' = ""
    /\ UNCHANGED << now, next_oid, homes, idx, data, replies, probe, entryVars >>

-----------------------------------------------------------------------------
(* __init__.py: async_update_data, one action per await *)

\* the coordinator's interval elapses and it calls async_update_data
StartCycle ==
    /\ pc = "idle"
    /\ pc' = "homes_token"
    /\ sent' = << >>
    /\ outcome' = ""
    /\ err' = ""
    /\ first' = FALSE
    /\ UNCHANGED << now, auth_token, next_oid, homes, idx, data,
                    published, replies, last_good, probe, entryVars >>

AtToken == pc \in { "homes_token", "status_token" }

FetchOf(p) == IF p = "homes_token" THEN "homes_fetch" ELSE "status_fetch"

\* the refresh request of access_token is awaited
AtRefreshWait == pc \in { "homes_refresh_wait", "status_refresh_wait" }

RefreshWaitOf(p) ==
    IF p = "homes_token" THEN "homes_refresh_wait" ELSE "status_refresh_wait"

\* the fetch that follows the refresh awaited at p
FetchAfter(p) ==
    IF p = "homes_refresh_wait" THEN "homes_fetch" ELSE "status_fetch"

\* the task is suspended in session.request or in response.json: a request
\* was handed to the session and nothing was written since. The two awaits
\* of a request are one position, no variable changes between them.
Waiting ==
    \/ AtRefreshWait
    \/ pc \in { "setup_auth_wait", "homes_wait", "status_wait", "reauth_wait" }

\* access_token: the stored token is valid for the margin, nothing is sent.
\* Were auth_token None, self.auth_token.valid_in would raise AttributeError
\* outside the try of access_token: caught at line 53 of __init__.py.
AccessTokenValid ==
    /\ AtToken
    /\ IF IsNone(auth_token)
       THEN /\ err' = "AttributeError"
            /\ FinishRaise("UpdateFailed")
            /\ UNCHANGED << now, auth_token, next_oid, sent, probe, entryVars >>
       ELSE /\ ValidIn(Get(auth_token), RefreshMargin, now)
            /\ pc' = FetchOf(pc)
            /\ UNCHANGED << now, auth_token, next_oid, first, homes, idx,
                            data, err, published, outcome, sent, replies,
                            last_good, probe, entryVars >>

\* access_token, api.py lines 190 to 192 and 172: the stored token is not
\* valid for the margin, the refresh grant is handed to the session
AccessTokenRefreshSend ==
    /\ AtToken
    /\ ~IsNone(auth_token)
    /\ ~ValidIn(Get(auth_token), RefreshMargin, now)
    /\ sent' = Append(sent, ReqRefresh)
    /\ pc' = RefreshWaitOf(pc)
    /\ UNCHANGED << now, auth_token, next_oid, first, homes, idx, data, err,
                    published, outcome, replies, last_good, probe, entryVars >>

\* access_token: the refresh has answered and the new token is stored
AccessTokenRefreshOk(j) ==
    /\ AtRefreshWait
    /\ AuthTokenOK(j)
    /\ auth_token' = StoreToken(j)
    /\ next_oid' = FreshOid
    /\ pc' = FetchAfter(pc)
    /\ UNCHANGED << now, first, homes, idx, data, err, published, outcome,
                    sent, replies, last_good, probe, entryVars >>

\* mutant of AccessTokenRefreshFail: the stored token is dropped on failure
AccessTokenRefreshFailDropsToken(exc) ==
    /\ AtRefreshWait
    /\ sent' = sent
    /\ err' = "InvalidAuthError"
    /\ pc' = "reauth"
    /\ auth_token' = << >>
    /\ UNCHANGED << now, next_oid, first, homes, idx, data,
                    published, outcome, replies, last_good, probe, entryVars >>

\* mutant of AccessTokenRefreshFail: only an answer of the vendor counts as an
\* authentication error, a transport error is raised as it is
AccessTokenRefreshFailTransport(exc) ==
    /\ AtRefreshWait
    /\ sent' = sent
    /\ IF exc = FetchExc("network")
       THEN /\ err' = exc
            /\ FinishRaise("UpdateFailed")
            /\ UNCHANGED << now, auth_token, next_oid, probe, entryVars >>
       ELSE /\ err' = "InvalidAuthError"
            /\ pc' = "reauth"
            /\ UNCHANGED << now, auth_token, next_oid, first, homes, idx,
                            data, published, outcome, replies, last_good,
                            probe, entryVars >>

\* access_token: the refresh raises, whatever the reason: InvalidAuthError,
\* which async_update_data catches at line 49
AccessTokenRefreshFail(exc) ==
    /\ AtRefreshWait
    /\ sent' = sent
    /\ err' = "InvalidAuthError"
    /\ pc' = "reauth"
    /\ UNCHANGED << now, auth_token, next_oid, first, homes, idx, data,
                    published, outcome, replies, last_good, probe, entryVars >>

\* get_home_data, api.py line 205: the home-list request is handed to the
\* session
GetHomeDataSend ==
    /\ pc = "homes_fetch"
    /\ sent' = Append(sent, ReqHomes)
    /\ pc' = "homes_wait"
    /\ UNCHANGED << now, auth_token, next_oid, first, homes, idx, data, err,
                    published, outcome, replies, last_good, probe, entryVars >>

\* mutant of GetHomeDataOk: the cycle fills the dict of the last cycle
\* instead of a new one
GetHomeDataOkCarriesOver(reply) ==
    /\ pc = "homes_wait"
    /\ HomesParseOK(reply)
    /\ sent' = sent
    /\ IF reply = << >>
       THEN FinishOk(IF IsNone(published) THEN << >> ELSE Get(published),
                     [homes |-> reply, statuses |-> << >>])
       ELSE /\ homes' = ParseHomes(reply)
            /\ idx' = 1
            /\ data' = IF IsNone(published) THEN << >> ELSE Get(published)
            /\ replies' = [homes |-> reply, statuses |-> << >>]
            /\ pc' = "status_token"
            /\ UNCHANGED << first, published, outcome, last_good >>
    /\ UNCHANGED << now, auth_token, next_oid, err, probe, entryVars >>

\* get_home_data returns the parsed homes; an empty list ends the cycle
GetHomeDataOk(reply) ==
    /\ pc = "homes_wait"
    /\ HomesParseOK(reply)
    /\ sent' = sent
    /\ IF reply = << >>
       THEN FinishOk(<< >>, [homes |-> reply, statuses |-> << >>])
       ELSE /\ homes' = ParseHomes(reply)
            /\ idx' = 1
            /\ data' = << >>
            /\ replies' = [homes |-> reply, statuses |-> << >>]
            /\ pc' = "status_token"
            /\ UNCHANGED << first, published, outcome, last_good >>
    /\ UNCHANGED << now, auth_token, next_oid, err, probe, entryVars >>

\* get_home_data raises: caught at line 53 and raised as UpdateFailed
GetHomeDataFail(exc) ==
    /\ pc = "homes_wait"
    /\ sent' = sent
    /\ err' = exc
    /\ FinishRaise("UpdateFailed")
    /\ UNCHANGED << now, auth_token, next_oid, probe, entryVars >>

\* the dict data after the body of the loop over homes has run for homes[idx]
DataAfter(reply) ==
    DictSet(data, homes[idx],
            MapStatuses(ParseStatuses(homes[idx], reply)))

\* get_home_statuses, api.py line 224: the status request of homes[idx] is
\* handed to the session
GetHomeStatusesSend ==
    /\ pc = "status_fetch"
    /\ sent' = Append(sent, ReqStatus(homes[idx]))
    /\ pc' = "status_wait"
    /\ UNCHANGED << now, auth_token, next_oid, first, homes, idx, data, err,
                    published, outcome, replies, last_good, probe, entryVars >>

\* get_home_statuses returns and every status is converted
GetHomeStatusesOk(reply) ==
    /\ pc = "status_wait"
    /\ StatusesExc(homes[idx], reply) = ""
    /\ sent' = sent
    /\ IF idx = Len(homes)
       THEN FinishOk(DataAfter(reply),
                     [replies EXCEPT !.statuses = Append(@, reply)])
       ELSE /\ data' = DataAfter(reply)
            /\ idx' = idx + 1
            /\ replies' = [replies EXCEPT !.statuses = Append(@, reply)]
            /\ pc' = "status_token"
            /\ UNCHANGED << first, homes, published, outcome, last_good >>
    /\ UNCHANGED << now, auth_token, next_oid, err, probe, entryVars >>

\* the exceptions the body of the loop over homes can raise for some home
AllStatusesExcs ==
    UNION { HomeStatusesExcs(VeluxHomeNew(h)) :
              h \in { x \in HomeSamples : VeluxHomeOK(x) } }

\* mutant of GetHomeStatusesFail: the exception is handled as an
\* authentication error
GetHomeStatusesFailReauth(exc) ==
    /\ pc = "status_wait"
    /\ exc \in HomeStatusesExcs(homes[idx])
    /\ sent' = sent
    /\ err' = exc
    /\ pc' = "reauth"
    /\ UNCHANGED << now, auth_token, next_oid, first, homes, idx, data,
                    published, outcome, replies, last_good, probe, entryVars >>

\* mutant of GetHomeStatusesFail: the failure of one home is swallowed and the
\* loop goes on with the next home
GetHomeStatusesFailContinues(exc) ==
    /\ pc = "status_wait"
    /\ exc \in HomeStatusesExcs(homes[idx])
    /\ sent' = sent
    /\ err' = exc
    /\ IF idx = Len(homes)
       THEN FinishRaise("UpdateFailed")
       ELSE /\ idx' = idx + 1
            /\ pc' = "status_token"
            /\ UNCHANGED << first, homes, data, published, outcome, replies,
                            last_good >>
    /\ UNCHANGED << now, auth_token, next_oid, probe, entryVars >>

\* get_home_statuses or the conversion of a status raises: caught at line 53
GetHomeStatusesFail(exc) ==
    /\ pc = "status_wait"
    /\ exc \in HomeStatusesExcs(homes[idx])
    /\ sent' = sent
    /\ err' = exc
    /\ FinishRaise("UpdateFailed")
    /\ UNCHANGED << now, auth_token, next_oid, probe, entryVars >>

\* line 50, api.py line 150: the handler of InvalidAuthError hands the
\* password grant to the session
ReauthenticateSend ==
    /\ pc = "reauth"
    /\ sent' = Append(sent, ReqPassword)
    /\ pc' = "reauth_wait"
    /\ UNCHANGED << now, auth_token, next_oid, first, homes, idx, data, err,
                    published, outcome, replies, last_good, probe, entryVars >>

\* line 50 succeeds and line 52 raises UpdateFailed
ReauthenticateOk(j) ==
    /\ pc = "reauth_wait"
    /\ AuthTokenOK(j)
    /\ sent' = sent
    /\ auth_token' = StoreToken(j)
    /\ next_oid' = FreshOid
    /\ FinishRaise("UpdateFailed")
    /\ UNCHANGED << now, err, probe, entryVars >>

\* mutant of ReauthenticateFail: a failed authenticate clears the stored token
ReauthenticateFailClearsToken(exc) ==
    /\ pc = "reauth_wait"
    /\ sent' = sent
    /\ FinishRaise(exc)
    /\ auth_token' = << >>
    /\ UNCHANGED << now, next_oid, err, probe, entryVars >>

\* line 50 raises inside the except clause: the exception leaves the function
ReauthenticateFail(exc) ==
    /\ pc = "reauth_wait"
    /\ sent' = sent
    /\ FinishRaise(exc)
    /\ UNCHANGED << now, auth_token, next_oid, err, probe, entryVars >>

-----------------------------------------------------------------------------
(* api.py: VeluxGatewayData.update, called on a record of coordinator.data *)

\* the dictionaries update is called with
UpdateData == { [k \in { "busy", "no_field" } |->
                   IF k = "busy" THEN "w" ELSE "x"] }

\* the places of a record in the snapshot: entry and place in its list
SnapshotPlaces == (1..3) \X (1..3)

\* the snapshot after update(d) on the gateway record at the place: the
\* record is changed where it is, in the list the coordinator holds
UpdateInPlace(snapshot, place, d) ==
    [snapshot EXCEPT ![place[1]].devices[place[2]] = GatewayUpdate(@, d)]

\* a caller that holds the published snapshot calls update on one of its
\* gateway records, whenever the tasks of the integration are suspended or
\* not running: between two cycles, while the refresh task waits for an
\* answer, while the setup waits for the platforms (line 74), and also
\* during and after an unload; lines 271 to 275
CallGatewayUpdate(place, d) ==
    /\ pc \in { "idle", "setup_platforms" } \/ Waiting
    /\ ~IsNone(published)
    /\ place[1] \in 1..Len(Get(published))
    /\ place[2] \in 1..Len(Get(published)[place[1]].devices)
    /\ Get(published)[place[1]].devices[place[2]].kind = "Gateway"
    /\ published' = Some(UpdateInPlace(Get(published), place, d))
    /\ UNCHANGED << now, auth_token, next_oid, pc, first, homes, idx, data,
                    err, outcome, sent, replies, last_good, probe,
                    entryVars >>

-----------------------------------------------------------------------------
(* The program *)

Next ==
    \/ \E d \in Advances : Tick(d)
    \/ SetupAuthenticateSend
    \/ \E j \in TokenReplies : SetupAuthenticateOk(j)
    \/ \E e \in AuthenticateExcs : SetupAuthenticateFail(e)
    \/ SetupRetry
    \/ StartCycle
    \/ AccessTokenValid
    \/ AccessTokenRefreshSend
    \/ \E j \in TokenReplies : AccessTokenRefreshOk(j)
    \/ \E e \in RefreshExcs : AccessTokenRefreshFail(e)
    \/ GetHomeDataSend
    \/ \E r \in HomeReplies : GetHomeDataOk(r)
    \/ \E e \in HomeDataExcs : GetHomeDataFail(e)
    \/ GetHomeStatusesSend
    \/ \E r \in StatusReplies : GetHomeStatusesOk(r)
    \/ \E e \in AllStatusesExcs : GetHomeStatusesFail(e)
    \/ ReauthenticateSend
    \/ \E j \in TokenReplies : ReauthenticateOk(j)
    \/ \E e \in AuthenticateExcs : ReauthenticateFail(e)
    \/ \E p \in SnapshotPlaces, d \in UpdateData : CallGatewayUpdate(p, d)

Spec == Init /\ [][Next]_vars

-----------------------------------------------------------------------------
(* Vocabulary of the properties of the refresh cycle *)

\* a cycle has finished and no other has started
CycleEnded == pc = "idle" \/ (pc = "setup_failed" /\ first)

\* the requests of the running (or last) cycle: the log without the
\* authenticate of the setup
CycleSent == IF first /\ sent # << >> THEN Tail(sent) ELSE sent

Count(seq, x) == Cardinality({ i \in DOMAIN seq : seq[i] = x })

CountReq(seq, kind) == Cardinality({ i \in DOMAIN seq : seq[i].req = kind })

Last(seq) == seq[Len(seq)]

\* this step sent a request of the kind
Sends(r) == sent' = Append(sent, r)

\* the sub_type of a status, "(absent)" when the record has none
SubTypeOf(status) ==
    IF "velux_type" \in Keys(status.kwargs) THEN status.kwargs["velux_type"]
    ELSE "(absent)"

\* the record the discriminator rule of the specification asks for
RuleKind(status) ==
    IF status.type = "NXG" THEN "Gateway"
    ELSE IF status.type = "NXS" THEN "Switch"
    ELSE IF status.type = "NXO" /\ SubTypeOf(status) = "shutter" THEN "Shutter"
    ELSE IF status.type = "NXO" /\ SubTypeOf(status) = "window" THEN "Window"
    ELSE ""

\* kind and identifier of the records of a device list
Brief(devices) ==
    [i \in 1..Len(devices) |-> << devices[i].kind, devices[i].id >>]

RECURSIVE RuleDevices(_)
\* kind and identifier of the records the rule keeps of a raw module list
RuleDevices(raw) ==
    IF raw = << >> THEN << >>
    ELSE LET st == [type |-> IF "type" \in Keys(Head(raw))
                             THEN Head(raw)["type"] ELSE "(absent)",
                    kwargs |-> Head(raw)]
         IN  (IF RuleKind(st) = "" THEN << >>
              ELSE << << RuleKind(st), Head(raw)["id"] >> >>)
             \o RuleDevices(Tail(raw))

\* the last module list a cycle received for the home id
LastReplyFor(log, id) ==
    LET ks == { k \in 1..Len(log.statuses) : log.homes[k]["id"] = id }
    IN  log.statuses[CHOOSE k \in ks : \A m \in ks : m <= k]

\* every request of the cycle was answered and every body decoded: nothing
\* was raised, or the conversion of a module record raised
FetchesSucceeded ==
    \/ err = ""
    \/ /\ err \in { "KeyError", "TypeError" }
       /\ sent # << >>
       /\ Last(sent).req = "homestatus"

RECURSIVE BuildData(_, _, _)
\* the dict a cycle returns for parsed homes hs and their module lists rs,
\* starting from the dict acc
BuildData(hs, rs, acc) ==
    IF hs = << >> THEN acc
    ELSE BuildData(Tail(hs), Tail(rs),
                   DictSet(acc, Head(hs),
                           MapStatuses(ParseStatuses(Head(hs), Head(rs)))))

\* the mapping computed from the replies of one cycle alone
SnapshotOf(log) == BuildData(ParseHomes(log.homes), log.statuses, << >>)

\* the step is a call of VeluxGatewayData.update on a gateway record of the
\* published snapshot
UpdateCalled ==
    /\ ~IsNone(published)
    /\ \E p \in SnapshotPlaces, d \in UpdateData :
          /\ p[1] \in 1..Len(Get(published))
          /\ p[2] \in 1..Len(Get(published)[p[1]].devices)
          /\ Get(published)[p[1]].devices[p[2]].kind = "Gateway"
          /\ published' = Some(UpdateInPlace(Get(published), p, d))
    /\ UNCHANGED << pc, outcome, last_good, sent, auth_token >>

\* the record is the record base, but for fields of a gateway that a call of
\* update has set
UpdatedRecord(device, base) ==
    /\ device.kind = base.kind
    /\ device # base => base.kind = "Gateway"
    /\ \/ device.home = base.home
       \/ \E d \in UpdateData : "home" \in Keys(d) /\ device.home = d["home"]
    /\ \/ device.id = base.id
       \/ \E d \in UpdateData : "id" \in Keys(d) /\ device.id = d["id"]
    /\ DOMAIN device.fields = DOMAIN base.fields
    /\ \A k \in DOMAIN base.fields :
          \/ device.fields[k] = base.fields[k]
          \/ \E d \in UpdateData :
                k \in Keys(d) /\ device.fields[k] = d[k]

\* the snapshot has the keys, the lists and the records of the snapshot
\* base, but for fields of gateway records that calls of update have set
UpdatedOnly(snapshot, base) ==
    /\ Len(snapshot) = Len(base)
    /\ \A i \in 1..Len(base) :
          /\ snapshot[i].home = base[i].home
          /\ Len(snapshot[i].devices) = Len(base[i].devices)
          /\ \A k \in 1..Len(base[i].devices) :
                UpdatedRecord(snapshot[i].devices[k], base[i].devices[k])

\* the step ends a cycle that returns its data
CycleReturns ==
    /\ pc \in { "homes_wait", "status_wait" }
    /\ pc' = "idle"
    /\ outcome' = "ok"

\* expires_at minus the current time
Remaining(tok) == tok.expires_at - now

\* exceptions that a reply of the vendor causes in the cycle that receives it
VendorFaults ==
    { "InvalidAuthError", "KeyError", "TypeError" }
    \cup { FetchExc(f) : f \in Failures }

-----------------------------------------------------------------------------
(* Properties of the refresh cycle *)

\* C2: a cycle whose fetches all succeed ends successfully whatever the type
\* and sub_type of the records, and publishes for each home exactly the
\* records of the four known kinds, in the order received.
C2_UnknownRecordsDropped ==
    (CycleEnded /\ FetchesSucceeded) =>
        /\ outcome = "ok"
        /\ ~IsNone(published)
        /\ \A i \in 1..Len(Get(published)) :
              Brief(Get(published)[i].devices) =
              RuleDevices(LastReplyFor(Get(last_good),
                                       Get(published)[i].home.id))

\* C3: a cycle in which an InvalidAuthError occurred made one
\* re-authentication attempt and ended as UpdateFailed, and no cycle ends
\* with an exception other than UpdateFailed.
C3_AuthErrorEndsUpdateFailed ==
    CycleEnded =>
        /\ outcome \in { "ok", "UpdateFailed" }
        /\ err = "InvalidAuthError" =>
              /\ outcome = "UpdateFailed"
              /\ Count(CycleSent, ReqPassword) = 1

\* C4: a cycle that fails with anything but an authentication error ends as
\* UpdateFailed without a re-authentication, the failing step leaves the
\* published snapshot as it was, and the snapshot changes only when a cycle
\* succeeds or when a caller of VeluxGatewayData.update sets fields of one of
\* its gateway records.
C4_OtherErrorKeepsSnapshot ==
    /\ [](CycleEnded /\ err \notin { "", "InvalidAuthError" } =>
            /\ outcome = "UpdateFailed"
            /\ Count(CycleSent, ReqPassword) = 0)
    /\ [][(err = "" /\ err' \notin { "", "InvalidAuthError" }) =>
            published' = published]_vars
    /\ [][published' # published => (CycleReturns \/ UpdateCalled)]_vars

\* C4 witness: a record that cannot be mapped failed a polling cycle and the
\* snapshot of an earlier cycle, with a device in it, is still published
C4_Witness ==
    /\ pc = "idle"
    /\ ~first
    /\ err = "KeyError"
    /\ outcome = "UpdateFailed"
    /\ ~IsNone(published)
    /\ \E i \in 1..Len(Get(published)) : Get(published)[i].devices # << >>

\* C5: a step in which the awaited refresh request fails raises
\* InvalidAuthError and leaves the stored token the same, and after it the
\* cycle sends no fetch.
C5_FailedRefresh ==
    /\ [][(AtRefreshWait /\ pc' # pc /\ pc' # FetchAfter(pc)) =>
            /\ err' = "InvalidAuthError"
            /\ pc' = "reauth"
            /\ auth_token' = auth_token]_vars
    /\ [](err = "InvalidAuthError" =>
            \E i \in DOMAIN sent :
                /\ sent[i] = ReqRefresh
                /\ \A k \in (i + 1)..Len(sent) : sent[k] = ReqPassword)

\* C5 witness: the refresh before the second home's fetch has just failed
C5_Witness ==
    /\ pc = "reauth"
    /\ err = "InvalidAuthError"
    /\ Last(sent) = ReqRefresh
    /\ CountReq(sent, "homestatus") = 1
    /\ ~IsNone(auth_token)

\* C6: the published snapshot is absent while no cycle has succeeded; a
\* cycle that succeeds publishes the mapping computed from its own replies
\* alone; no step but a successful cycle and a call of
\* VeluxGatewayData.update changes the snapshot, so that after cycles alone
\* the snapshot is that mapping, and after calls of update it is that
\* mapping but for the fields of gateway records the calls have set.
C6_SnapshotOfLastGoodCycle ==
    /\ [](IF IsNone(last_good) THEN IsNone(published)
          ELSE /\ ~IsNone(published)
               /\ UpdatedOnly(Get(published), SnapshotOf(Get(last_good))))
    /\ [][CycleReturns =>
            published' = Some(SnapshotOf(Get(last_good')))]_vars
    /\ [][last_good' # last_good => CycleReturns]_vars
    /\ [][(published' # published /\ ~CycleReturns) => UpdateCalled]_vars

\* C6 witness: a cycle failed at its second home after a cycle that
\* published one home; nothing of the failed cycle is published
C6_Witness ==
    /\ pc = "idle"
    /\ outcome = "UpdateFailed"
    /\ CountReq(sent, "homestatus") = 2
    /\ ~IsNone(published)
    /\ Len(Get(published)) = 1
    /\ Get(published)[1].home.id # sent[Len(sent)].home

\* update was called on a gateway record after the last successful cycle: the
\* snapshot differs from the mapping of that cycle in the field set
C6_WitnessUpdated ==
    /\ pc = "idle"
    /\ outcome = "UpdateFailed"
    /\ ~IsNone(published)
    /\ published # Some(SnapshotOf(Get(last_good)))
    /\ \E i \in 1..Len(Get(published)) :
          \E k \in 1..Len(Get(published)[i].devices) :
              /\ Get(published)[i].devices[k].kind = "Gateway"
              /\ Get(published)[i].devices[k].fields["busy"] = "w"

\* C7: a cycle in which the vendor answers every request correctly succeeds
\* and has published a snapshot, whatever state the earlier cycles left: a
\* cycle fails only on a fault of the vendor in that same cycle.
C7_SelfHeal ==
    CycleEnded =>
        \/ err \in VendorFaults
        \/ /\ err = ""
           /\ outcome = "ok"
           /\ ~IsNone(published)
           /\ UpdatedOnly(Get(published), SnapshotOf(Get(last_good)))

\* C7 witness: a polling cycle succeeded although the stored token had to be
\* refreshed before both of its fetches
C7_Witness ==
    /\ pc = "idle"
    /\ ~first
    /\ outcome = "ok"
    /\ Count(sent, ReqRefresh) = 2
    /\ CountReq(sent, "homestatus") = 1

\* the margin of 2h59m and the lifetime of 3h, in seconds
C9_Margin == 179 * 60

C9_Lifetime == 180 * 60

\* margins above three hours
C9_Above == { C9_Lifetime + 1, C9_Lifetime + 60 }

\* this step is the token check that precedes a fetch
C9_TokenCheck == AtToken /\ pc' # pc /\ ~IsNone(auth_token)

\* C9 as stated: a token of lifetime 10800 s is valid at issue time for
\* 2h59m and invalid for every margin above 3h, and before each fetch a
\* refresh request is sent exactly when the stored token's remaining
\* lifetime is below 2h59m, that is more than 60 s after issue.
C9_RefreshByMargin ==
    /\ [](\A i \in DOMAIN auth_token :
            auth_token[i].expires_in = C9_Lifetime =>
              /\ ValidIn(auth_token[i], C9_Margin, auth_token[i].created_at)
              /\ \A m \in C9_Above :
                    ~ValidIn(auth_token[i], m, auth_token[i].created_at))
    /\ [][C9_TokenCheck =>
            /\ Sends(ReqRefresh) <=> Remaining(Get(auth_token)) < C9_Margin
            /\ Get(auth_token).expires_in = C9_Lifetime =>
                 (Sends(ReqRefresh) <=>
                      now - Get(auth_token).created_at > 60)]_vars

\* C9 amended: the same for a token that has an access token; a token whose
\* access token is None is valid for no margin and is refreshed before
\* every fetch.
C9_RefreshByMarginWithToken ==
    /\ [](\A i \in DOMAIN auth_token :
            auth_token[i].expires_in = C9_Lifetime =>
              /\ auth_token[i].access_token # Null =>
                    ValidIn(auth_token[i], C9_Margin, auth_token[i].created_at)
              /\ \A m \in C9_Above :
                    ~ValidIn(auth_token[i], m, auth_token[i].created_at))
    /\ [][C9_TokenCheck =>
            IF Get(auth_token).access_token = Null THEN Sends(ReqRefresh)
            ELSE /\ Sends(ReqRefresh) <=>
                        Remaining(Get(auth_token)) < C9_Margin
                 /\ Get(auth_token).expires_in = C9_Lifetime =>
                      (Sends(ReqRefresh) <=>
                           now - Get(auth_token).created_at > 60)]_vars

\* C9 witness: a polling cycle passed the token check 60 s after issue, at a
\* remaining lifetime of exactly 2h59m, without a refresh request
C9_Witness ==
    /\ pc = "homes_fetch"
    /\ ~first
    /\ sent = << >>
    /\ Get(auth_token).access_token # Null
    /\ now - Get(auth_token).created_at = 60
    /\ Remaining(Get(auth_token)) = C9_Margin

\* this step ends the wait for the answer to a token request
C10_TokenAnswered ==
    /\ AtRefreshWait \/ pc \in { "setup_auth_wait", "reauth_wait" }
    /\ pc' # pc

\* this step is a refresh or an authenticate that failed
C10_FailedTokenRequest ==
    \/ AtRefreshWait /\ pc' = "reauth"
    \/ /\ pc \in { "setup_auth_wait", "reauth_wait" }
       /\ pc' # pc
       /\ outcome' \in AuthenticateExcs

\* C10: every stored token has expires_at = created_at + expires_in; a
\* changed token is another token object, never the same object with other
\* fields; once the first refresh has started the stored token is never
\* absent, and a failed authenticate or refresh leaves it as it was.
C10_TokenReplacedNotMutated ==
    /\ [](\A i \in DOMAIN auth_token :
            auth_token[i].expires_at =
                auth_token[i].created_at + auth_token[i].expires_in)
    /\ [][(~IsNone(auth_token) /\ ~IsNone(auth_token')
             /\ Get(auth_token').oid = Get(auth_token).oid) =>
            auth_token' = auth_token]_vars
    /\ [][(~IsNone(auth_token) /\ C10_TokenAnswered
             /\ ~C10_FailedTokenRequest) =>
            /\ ~IsNone(auth_token')
            /\ Get(auth_token').oid # Get(auth_token).oid]_vars
    /\ [](pc \notin { "setup_auth", "setup_auth_wait", "setup_failed" } =>
            ~IsNone(auth_token))
    /\ [][(pc \notin { "setup_auth", "setup_auth_wait", "setup_failed" }
             /\ C10_FailedTokenRequest) => auth_token' = auth_token]_vars
    /\ [][(Sends(ReqRefresh) \/ Sends(ReqPassword)) =>
            auth_token' = auth_token]_vars

\* C10 witness: a re-authentication 61 s after setup has replaced the token
C10_Witness ==
    /\ pc = "idle"
    /\ err = "InvalidAuthError"
    /\ outcome = "UpdateFailed"
    /\ Get(auth_token).created_at = 61
    /\ Get(auth_token).expires_at = 61 + 10800

-----------------------------------------------------------------------------
(* The mapper alone: _convert_status_to_sensor applied to one status *)

\* the key sets the vendor may send with a type: the fields of the kind, the
\* same with the optional field, without last_seen, without velux_type, and
\* with a key the dataclass does not know
KeySetsOf(type) ==
    CASE type = "NXG" ->
            { RawKeys("Gateway"),
              RawKeys("Gateway") \cup {"outdated_weather_forecast"},
              RawKeys("Gateway") \ {"last_seen"} }
      [] type = "NXS" ->
            { RawKeys("Switch"),
              RawKeys("Switch") \cup {"tamper"},
              RawKeys("Switch") \ {"last_seen"} }
      [] type = "NXO" ->
            { RawKeys("Window"), RawKeys("Shutter"),
              RawKeys("Window") \ {"velux_type"},
              RawKeys("Shutter") \ {"velux_type"},
              RawKeys("Shutter") \ {"last_seen"} }
      [] OTHER ->
            { {"reachable"}, {"reachable", "velux_type"} }

ModuleTypes == { "NXG", "NXS", "NXO", "NXD" }

VeluxTypes == { "window", "shutter", "blind" }

ModuleUniverse ==
    UNION { { RawModule(id, type, keys, vt) :
                id \in {"m1", "m2"}, keys \in KeySetsOf(type),
                vt \in VeluxTypes } :
            type \in ModuleTypes }

StatusUniverse ==
    { VeluxModuleNew(VeluxHomeNew(h), m) :
        h \in {HomeH1A, HomeH2A}, m \in ModuleUniverse }

\* the call _convert_status_to_sensor(status): the exception raised and,
\* when none is, the value returned
CallConvert(status) ==
    << ConvertExc(status),
       IF ConvertExc(status) = "" THEN ConvertStatusToSensor(status)
       ELSE << >> >>

InitConvert ==
    /\ ProgramInit
    /\ auth_token = << >>
    /\ next_oid = 0
    /\ pc = "setup_auth"
    /\ now = 0
    /\ probe \in { << st >> : st \in StatusUniverse }

ApplyConvert ==
    /\ Len(probe) = 1
    /\ probe' = << probe[1] >> \o CallConvert(probe[1])
    /\ UNCHANGED << now, auth_token, next_oid, pc, first, homes, idx, data,
                    err, published, outcome, sent, replies, last_good,
                    entryVars >>

SpecConvert == InitConvert /\ [][ApplyConvert]_vars

\* ret is a record of the kind carrying the identifier and home of status
IsRecordOf(ret, kind, status) ==
    /\ Len(ret) = 1
    /\ ret[1].kind = kind
    /\ ret[1].id = status.id
    /\ ret[1].home = status.home

\* C1: for every raw module record the mapper returns, without raising, the
\* record of the kind its type and sub_type select, carrying the record's
\* identifier and home, and returns no record for every other combination.
C1_MapperTotal ==
    Len(probe) = 3 =>
        /\ probe[2] = ""
        /\ IF RuleKind(probe[1]) = "" THEN probe[3] = << >>
           ELSE IsRecordOf(probe[3], RuleKind(probe[1]), probe[1])

-----------------------------------------------------------------------------
(* The token alone: valid_in asked of one token at one time *)

\* the safety thresholds asked: none, 2h59m and whole minutes above it
Margins == { 0 } \cup { RefreshMargin + 60 * k : k \in 0..MaxMarginSteps }

InitToken ==
    /\ ProgramInit
    /\ next_oid = 1
    /\ pc = "idle"
    /\ now \in 0..MaxNow
    /\ auth_token \in { Some(AuthTokenNew(j, 0, 0)) :
                          j \in { t \in TokenReplies : AuthTokenOK(t) } }
    /\ probe \in { << m >> : m \in Margins }

ApplyValidIn ==
    /\ Len(probe) = 1
    /\ probe' = << probe[1], ValidIn(Get(auth_token), probe[1], now) >>
    /\ UNCHANGED << now, auth_token, next_oid, pc, first, homes, idx, data,
                    err, published, outcome, sent, replies, last_good,
                    entryVars >>

SpecToken == InitToken /\ [][ApplyValidIn]_vars

\* C8 as stated: for every token and every threshold m, valid_in(m) is false
\* when the remaining lifetime is below m and true when it is m or more.
C8_ValidInByMargin ==
    Len(probe) = 2 =>
        (probe[2] <=> Remaining(Get(auth_token)) >= probe[1])

\* C8 amended: the same for every token that has an access token; a token
\* whose access token is None is reported as needing refresh for every m.
C8_ValidInByMarginWithToken ==
    Len(probe) = 2 =>
        IF Get(auth_token).access_token = Null
        THEN probe[2] = FALSE
        ELSE (probe[2] <=> Remaining(Get(auth_token)) >= probe[1])

\* C8 witness: the boundary, remaining lifetime = m = 2h59m, reported valid
C8_Witness ==
    /\ Len(probe) = 2
    /\ Get(auth_token).access_token # Null
    /\ probe[1] = 179 * 60
    /\ Remaining(Get(auth_token)) = probe[1]
    /\ probe[2] = TRUE

-----------------------------------------------------------------------------
(* Equality alone: == and hash asked of a VeluxHome and another object *)

\* the class of an object of the model: isinstance and __class__
ClassOf(o) ==
    IF "kind" \in DOMAIN o THEN o.kind
    ELSE IF "type" \in DOMAIN o THEN "VeluxModule"
    ELSE "VeluxHome"

\* hash(str): equal strings hash alike, different strings may collide
StrHash(s) ==
    CASE s = "h1" -> 11
      [] s = "h2" -> 12
      [] OTHER    -> 11

\* mutant of VeluxHomeEq: the names are compared as well
VeluxHomeEqByFields(self, other) ==
    IF ClassOf(other) = "VeluxHome"
    THEN self.id = other.id /\ self.name = other.name
    ELSE FALSE

\* VeluxHome.__eq__
VeluxHomeEq(self, other) ==
    IF ClassOf(other) = "VeluxHome" THEN self.id = other.id ELSE FALSE

\* VeluxHome.__hash__
VeluxHomeHash(self) == StrHash(self.id)

\* VeluxModule.__eq__
VeluxModuleEq(self, other) ==
    IF ClassOf(other) = "VeluxModule"
    THEN /\ VeluxHomeEq(self.home, other.home)
         /\ self.id = other.id
         /\ self.type = other.type
    ELSE FALSE

\* the __eq__ a dataclass generates, for another object of the same class:
\* the tuples of the fields are compared
DataclassEq(self, other) ==
    /\ VeluxHomeEq(self.home, other.home)
    /\ self.id = other.id
    /\ self.fields = other.fields

\* a == b: a.__eq__(b); a dataclass answers NotImplemented for an object of
\* another class, b.__eq__(a) is asked then, and two objects whose __eq__
\* both answer NotImplemented are equal only when they are the same object
PyEq(a, b) ==
    IF ClassOf(a) = "VeluxHome" THEN VeluxHomeEq(a, b)
    ELSE IF ClassOf(a) = "VeluxModule" THEN VeluxModuleEq(a, b)
    ELSE IF ClassOf(b) = ClassOf(a) THEN DataclassEq(a, b)
    ELSE IF ClassOf(b) = "VeluxHome" THEN VeluxHomeEq(b, a)
    ELSE IF ClassOf(b) = "VeluxModule" THEN VeluxModuleEq(b, a)
    ELSE FALSE

\* a raw home of the home list: id, name and further attributes
RawHome(id, name, extra) ==
    [k \in {"id", "name"} \cup extra |->
        IF k = "id" THEN id ELSE IF k = "name" THEN name ELSE "v"]

HomeUniverse ==
    { VeluxHomeNew(RawHome(id, name, extra)) :
        id \in {"h1", "h2"}, name \in {"A", "B"}, extra \in { {}, {"place"} } }

\* modules and device records, some carrying the id of a home
RecordUniverse ==
    LET ms == { VeluxModuleNew(VeluxHomeNew(HomeH1A),
                               RawModule(id, "NXS", RawKeys("Switch"), "")) :
                  id \in {"h1", "m1"} }
    IN  ms \cup { DataclassNew("Switch", m) : m \in ms }

\* self == other, other == self, hash(self) and, for a home, hash(other)
CallHomeEq(self, other) ==
    << PyEq(self, other), PyEq(other, self), VeluxHomeHash(self),
       IF ClassOf(other) = "VeluxHome" THEN Some(VeluxHomeHash(other))
       ELSE << >> >>

InitHome ==
    /\ ProgramInit
    /\ auth_token = << >>
    /\ next_oid = 0
    /\ pc = "setup_auth"
    /\ now = 0
    /\ probe \in { << a, b >> :
                     a \in HomeUniverse, b \in HomeUniverse \cup RecordUniverse }

ApplyHomeEq ==
    /\ Len(probe) = 2
    /\ probe' = probe \o CallHomeEq(probe[1], probe[2])
    /\ UNCHANGED << now, auth_token, next_oid, pc, first, homes, idx, data,
                    err, published, outcome, sent, replies, last_good,
                    entryVars >>

SpecHome == InitHome /\ [][ApplyHomeEq]_vars

\* C11: two homes are equal exactly when their ids are equal, whatever their
\* names and further attributes, and equal homes have equal hashes; a home
\* equals no module and no device record, asked from either side, also when
\* the record carries the id of the home.
C11_HomeIdentityById ==
    Len(probe) = 6 =>
        IF ClassOf(probe[2]) = "VeluxHome"
        THEN /\ probe[3] <=> (probe[1].id = probe[2].id)
             /\ probe[4] <=> (probe[1].id = probe[2].id)
             /\ probe[3] => probe[6] = Some(probe[5])
        ELSE probe[3] = FALSE /\ probe[4] = FALSE

\* C11 witness: two homes of one id that differ in name and attributes were
\* compared and found equal
C11_Witness ==
    /\ Len(probe) = 6
    /\ ClassOf(probe[2]) = "VeluxHome"
    /\ probe[1].id = probe[2].id
    /\ probe[1].name # probe[2].name
    /\ probe[1].kwargs # probe[2].kwargs
    /\ probe[3] = TRUE

-----------------------------------------------------------------------------
(* cover.py, sensor.py, binary_sensor.py: the entities *)

\* list(coordinator.data.keys())
DictKeys(d) == [i \in 1..Len(d) |-> d[i].home]

\* the positions of the dict whose key is the home: found by hash and equality
DictFind(d, home) ==
    { i \in 1..Len(d) :
        /\ VeluxHomeHash(d[i].home) = VeluxHomeHash(home)
        /\ VeluxHomeEq(d[i].home, home) }

\* d.get(home, {}).get("devices", [])
DictGetDevices(d, home) ==
    IF DictFind(d, home) = {} THEN << >>
    ELSE d[CHOOSE i \in DictFind(d, home) : TRUE].devices

\* an entity: what __init__ keeps of the device it was created for
EntityNew(platform, device, attribute) ==
    [platform |-> platform,
     device_id |-> device.id,
     home |-> device.home,
     unique_id |-> IF platform = "cover" THEN << device.id >>
                   ELSE << device.id, attribute >>,
     attribute |-> attribute,
     is_window |-> platform = "cover" /\ device.kind = "Window"]

\* cover.py: the covers async_setup_entry appends for a device
CoverEntities(device) ==
    IF device.kind \in { "Window", "Shutter" }
    THEN << EntityNew("cover", device, "") >>
    ELSE << >>

\* sensor.py: the attributes create_*_sensors make a sensor of, in the order
\* the sensors are appended
SensorAttributes(device) ==
    CASE device.kind = "Gateway" -> << "wifi_strength", "last_seen" >>
      [] device.kind \in { "Window", "Shutter" } ->
            << "target_position" >> \o
            (IF "rain_position" \in FieldsOf(device.kind)
             THEN << "rain_position" >> ELSE << >>) \o
            << "last_seen" >>
      [] device.kind = "Switch" ->
            << "battery_level" >> \o
            (IF "battery_percent" \in FieldsOf(device.kind)
             THEN << "battery_percent" >> ELSE << >>) \o
            << "rf_strength", "last_seen" >>

\* binary_sensor.py: the attributes create_*_binary_sensors make a sensor of,
\* in the order the sensors are appended
BinarySensorAttributes(device) ==
    CASE device.kind = "Gateway" ->
            << "is_raining", "unlocked", "locking", "calibrating", "busy" >>
      [] device.kind \in { "Window", "Shutter" } -> << "reachable", "silent" >>
      [] device.kind = "Switch" -> << "reachable" >>

\* the entities the platform appends for one device
DeviceEntities(platform, device) ==
    CASE platform = "cover" -> CoverEntities(device)
      [] platform = "sensor" ->
            [k \in 1..Len(SensorAttributes(device)) |->
                EntityNew("sensor", device, SensorAttributes(device)[k])]
      [] platform = "binary_sensor" ->
            [k \in 1..Len(BinarySensorAttributes(device)) |->
                EntityNew("binary_sensor", device,
                          BinarySensorAttributes(device)[k])]

\* async_setup_entry of a platform: the exception of coordinator.data[home]
\* for a home of the registry that is no key of the snapshot, "" when every
\* home is a key
PlatformExc(registry, snapshot) ==
    IF \E i \in 1..Len(registry.homes) :
          DictFind(snapshot, registry.homes[i]) = {}
    THEN "KeyError"
    ELSE ""

RECURSIVE EntitiesOfDevices(_, _)
\* the inner loop: the entities of the devices of one home, in list order
EntitiesOfDevices(platform, devices) ==
    IF devices = << >> THEN << >>
    ELSE DeviceEntities(platform, Head(devices))
         \o EntitiesOfDevices(platform, Tail(devices))

RECURSIVE EntitiesOfHomes(_, _, _)
\* the outer loop over the homes of the registry
EntitiesOfHomes(platform, hs, snapshot) ==
    IF hs = << >> THEN << >>
    ELSE EntitiesOfDevices(platform, DictGetDevices(snapshot, Head(hs)))
         \o EntitiesOfHomes(platform, Tail(hs), snapshot)

\* async_setup_entry of a platform: the list handed to async_add_entities,
\* one entity per record and attribute; nothing is handed over when the loop
\* raises
PlatformEntities(platform, registry, snapshot) ==
    IF PlatformExc(registry, snapshot) # "" THEN << >>
    ELSE EntitiesOfHomes(platform, registry.homes, snapshot)

\* mutant of EntityDevice: the first device of the home is returned
EntityDeviceFirst(entity, snapshot) ==
    LET devices == DictGetDevices(snapshot, entity.home)
    IN  IF devices = << >> THEN << >> ELSE Some(devices[1])

\* the property device of the three entity classes: the first record of the
\* home's list with the entity's device id, << >> for None
EntityDevice(entity, snapshot) ==
    LET devices == DictGetDevices(snapshot, entity.home)
        ks == { k \in 1..Len(devices) : devices[k].id = entity.device_id }
    IN  IF ks = {} THEN << >>
        ELSE Some(devices[CHOOSE k \in ks : \A m \in ks : k <= m])

\* bool(value) of a JSON value
Truthy(v) == v \notin { Null, "false", "0", "" }

\* the exception the property available raises, "" when it returns:
\* VeluxCover reads device.reachable, an AttributeError on a record that has
\* no such field; VeluxBinarySensor reads it with getattr and a default
EntityAvailableExc(entity, snapshot) ==
    LET dev == EntityDevice(entity, snapshot)
    IN  IF /\ entity.platform = "cover"
           /\ ~IsNone(dev)
           /\ "reachable" \notin DOMAIN Get(dev).fields
        THEN "AttributeError"
        ELSE ""

\* the property available of VeluxCover and of VeluxBinarySensor when it
\* returns, << >> for VeluxSensor, which does not define it
EntityAvailable(entity, snapshot) ==
    LET dev == EntityDevice(entity, snapshot)
    IN  IF entity.platform = "sensor" THEN << >>
        ELSE IF EntityAvailableExc(entity, snapshot) # "" THEN << >>
        ELSE IF IsNone(dev) THEN Some(FALSE)
        ELSE IF "reachable" \in DOMAIN Get(dev).fields
        THEN Some(Truthy(Get(dev).fields["reachable"]))
        ELSE Some(TRUE)

\* mutant of SupportedFeatures: the cover advertises OPEN and CLOSE
SupportedFeaturesOpenClose(entity) == 3

\* VeluxCover.supported_features
SupportedFeatures(entity) == 0

-----------------------------------------------------------------------------
(* __init__.py: the config entry after the first refresh, lines 68 to 105 *)

\* entry.data: the stored credentials
EntryData == [k \in { "username", "password" } |-> "v"]

\* const.py: DOMAIN
DomainKey == "velux_active"

\* the elements of a sequence
Range(seq) == { seq[i] : i \in 1..Len(seq) }

\* the entities handed to async_add_entities by the platforms
AllEntities == UNION { Range(entities[p]) : p \in PLATFORMS }

\* the first refresh has returned and line 68 is next
FirstRefreshDone == pc = "idle" /\ first /\ IsNone(domain) /\ IsNone(unloaded)

\* the setup has returned True, no cycle runs and no unload was asked for
Loaded == pc = "idle" /\ ~IsNone(domain) /\ IsNone(unloaded)

\* the setup has returned True and the refresh task is suspended or not
\* running: the host can run something else
HostRuns ==
    /\ ~IsNone(domain)
    /\ IsNone(unloaded)
    /\ pc = "idle" \/ Waiting

\* lines 68 to 72: the coordinator, the client and the keys of the first
\* snapshot are put into hass.data[DOMAIN]
SetupPublish ==
    /\ FirstRefreshDone
    /\ domain' = Some([coordinator |-> "coordinator",
                       api_client |-> "api_client",
                       homes |-> DictKeys(Get(published))])
    /\ pc' = "setup_platforms"
    /\ UNCHANGED << now, auth_token, next_oid, first, homes, idx, data, err,
                    published, outcome, sent, replies, last_good, probe,
                    platforms, entities, unloaded >>

\* line 74: the host runs async_setup_entry of a platform, which hands its
\* entities to async_add_entities unless it raises; line 76 follows the last
\* platform
ForwardEntrySetup(platform) ==
    /\ pc = "setup_platforms"
    /\ platform \notin platforms
    /\ platforms' = platforms \cup { platform }
    /\ entities' = [entities EXCEPT ![platform] =
                       PlatformEntities(platform, Get(domain), Get(published))]
    /\ pc' = IF platforms' = PLATFORMS THEN "idle" ELSE "setup_platforms"
    /\ UNCHANGED << now, auth_token, next_oid, first, homes, idx, data, err,
                    published, outcome, sent, replies, last_good, probe,
                    domain, unloaded >>

\* the coordinator's timer fires for a loaded entry
ScheduledRefresh == Loaded /\ StartCycle

\* the host asks an entity for its state, between two cycles or while the
\* refresh task waits for an answer: device, available, of a cover
\* supported_features, the exception raised, and the position of the refresh
\* task, which the read leaves alone
EntityRead(entity) ==
    /\ HostRuns
    /\ entity \in AllEntities
    /\ probe' = << entity,
                   EntityDevice(entity, Get(published)),
                   EntityAvailable(entity, Get(published)),
                   IF entity.platform = "cover"
                   THEN Some(SupportedFeatures(entity)) ELSE << >>,
                   EntityAvailableExc(entity, Get(published)),
                   pc >>
    /\ pc' = "entity_read"
    /\ UNCHANGED << now, auth_token, next_oid, first, homes, idx, data,
                    err, published, outcome, sent, replies, last_good,
                    entryVars >>

\* the properties have returned and the host has taken the state
EntityReadReturn ==
    /\ pc = "entity_read"
    /\ probe' = << >>
    /\ pc' = probe[6]
    /\ UNCHANGED << now, auth_token, next_oid, first, homes, idx, data,
                    err, published, outcome, sent, replies, last_good,
                    entryVars >>

\* line 102: async_unload_entry asks the host to unload the platforms and
\* waits for it
UnloadEntryCall ==
    /\ HostRuns
    /\ unloaded' = Some("unload_platforms")
    /\ UNCHANGED << now, auth_token, next_oid, pc, first, homes, idx, data,
                    err, published, outcome, sent, replies, last_good, probe,
                    domain, platforms, entities >>

\* the host unloads the platforms, removes the entities of those that
\* unloaded and answers whether all of them did
UnloadPlatforms(unload_ok, gone) ==
    /\ unloaded = Some("unload_platforms")
    /\ unload_ok <=> gone = PLATFORMS
    /\ platforms' = platforms \ gone
    /\ entities' = [p \in PLATFORMS |->
                      IF p \in gone THEN << >> ELSE entities[p]]
    /\ unloaded' = Some(IF unload_ok THEN "unload_ok" ELSE "unload_failed")
    /\ UNCHANGED << now, auth_token, next_oid, pc, first, homes, idx, data,
                    err, published, outcome, sent, replies, last_good, probe,
                    domain >>

\* lines 103 to 105: with unload_ok, entry.data[DOMAIN] is looked up, which
\* raises KeyError for an entry that holds the credentials only; without,
\* False is returned. The entry is followed no further than the cycle that
\* is running: the host marks it not loaded or failed to unload.
UnloadEntryReturn ==
    /\ unloaded \in { Some("unload_ok"), Some("unload_failed") }
    /\ unloaded' = IF unloaded = Some("unload_failed") THEN Some("False")
                   ELSE IF DomainKey \in Keys(EntryData) THEN Some("True")
                   ELSE Some("KeyError")
    /\ UNCHANGED << now, auth_token, next_oid, pc, first, homes, idx, data,
                    err, published, outcome, sent, replies, last_good, probe,
                    domain, platforms, entities >>

\* what the vendor answers to the entry followed here: one token body; a home
\* whose name changes, a second home, a home listed twice; a home with a
\* window and a gateway, with a gateway under the id of the window, whose
\* modules are all unknown, and that has no module
EntryTokenReplies ==
    { [access_token |-> "a", refresh_token |-> "r",
       expires_in |-> VendorLifetime] }

HomeH1B == RawHome("h1", "B", {"place"})

EntryHomeReplies ==
    { << >>, << HomeH1A >>, << HomeH1B >>,
      << HomeH1A, HomeH2A >>, << HomeH1A, HomeH1B >> }

EntryStatusReplies ==
    { << ModWindow, ModUnknown, ModGateway >>, << ModGatewayM1 >>,
      << ModUnknown >>, << >> }

\* the failure of a fetch followed here: the vendor rejects the request
EntryFetchExcs == { FetchExc("status") }

\* what the host answers to async_unload_platforms followed here: the
\* platforms that unloaded are all, none, or the covers alone
UnloadAnswers == { PLATFORMS, {}, { "cover" } }

\* every entity a platform can create from these answers
EntityUniverse ==
    UNION { Range(DeviceEntities(p, dev)) :
              p \in PLATFORMS,
              dev \in UNION { Range(MapStatuses(ParseStatuses(h, r))) :
                                h \in UNION { Range(ParseHomes(hs)) :
                                                hs \in EntryHomeReplies },
                                r \in EntryStatusReplies } }

NextEntry ==
    \/ SetupAuthenticateSend
    \/ \E j \in EntryTokenReplies : SetupAuthenticateOk(j)
    \/ \E e \in AuthenticateExcs : SetupAuthenticateFail(e)
    \/ SetupRetry
    \/ SetupPublish
    \/ \E p \in PLATFORMS : ForwardEntrySetup(p)
    \/ ScheduledRefresh
    \/ AccessTokenValid
    \/ GetHomeDataSend
    \/ \E r \in EntryHomeReplies : GetHomeDataOk(r)
    \/ \E e \in EntryFetchExcs : GetHomeDataFail(e)
    \/ GetHomeStatusesSend
    \/ \E r \in EntryStatusReplies : GetHomeStatusesOk(r)
    \/ \E e \in EntryFetchExcs : GetHomeStatusesFail(e)
    \/ \E e \in EntityUniverse : EntityRead(e)
    \/ EntityReadReturn
    \/ \E p \in SnapshotPlaces, d \in UpdateData : CallGatewayUpdate(p, d)
    \/ UnloadEntryCall
    \/ \E ok \in BOOLEAN, gone \in UnloadAnswers : UnloadPlatforms(ok, gone)
    \/ UnloadEntryReturn

SpecEntry == Init /\ [][NextEntry]_vars

-----------------------------------------------------------------------------
(* Properties of the entities *)

\* the records with the device id listed under the home id in the snapshot
RecordsOf(snapshot, home_id, device_id) ==
    UNION { { snapshot[i].devices[k] :
                k \in { m \in 1..Len(snapshot[i].devices) :
                          snapshot[i].devices[m].id = device_id } } :
            i \in { j \in 1..Len(snapshot) : snapshot[j].home.id = home_id } }

\* C12: whenever the host reads an entity created at setup for device d of
\* home h, the entity resolves to the record with id d listed under the home
\* with id h in the current snapshot, whatever the name and attributes that
\* home has now; when the snapshot lists no such record the entity resolves
\* to no device and a cover or binary sensor reports itself unavailable.
C12_EntityResolvesById ==
    pc = "entity_read" =>
        LET found == RecordsOf(Get(published), probe[1].home.id,
                               probe[1].device_id)
        IN  IF found = {}
            THEN /\ probe[2] = << >>
                 /\ probe[1].platform \in { "cover", "binary_sensor" } =>
                        probe[3] = Some(FALSE)
            ELSE /\ probe[2] # << >>
                 /\ Get(probe[2]) \in found

\* C12 witness: the home was renamed after the setup and the entity, read
\* after that refresh, resolves to the record of the renamed home
C12_Witness ==
    /\ pc = "entity_read"
    /\ probe[1].home.name = "A"
    /\ probe[2] # << >>
    /\ Get(probe[2]).id = probe[1].device_id
    /\ Get(probe[2]).home.id = probe[1].home.id
    /\ Get(probe[2]).home.name = "B"

\* an entity whose device left the snapshot was read and is unavailable
C12_WitnessGone ==
    /\ pc = "entity_read"
    /\ probe[1].platform = "cover"
    /\ probe[2] = << >>
    /\ probe[3] = Some(FALSE)

\* a cover was read whose id is now the id of a record without the field
\* reachable: the entity resolves to that record and available raises
C12_WitnessRaises ==
    /\ pc = "entity_read"
    /\ probe[1].platform = "cover"
    /\ probe[2] # << >>
    /\ Get(probe[2]).kind = "Gateway"
    /\ probe[3] = << >>
    /\ probe[5] = "AttributeError"

\* the requests the vendor API is asked: the two token grants and the two
\* fetches
ReadRequests ==
    { "token:password", "token:refresh_token", "gethomedata", "homestatus" }

\* C13: every request sent is a token request, a list-homes or a home-status
\* request; reading an entity, also while a request of the cycle is awaited,
\* sends no request and leaves the published snapshot, the stored token, the
\* registry and the cycle alone; every cover advertises no control feature,
\* in every state.
C13_ReadOnly ==
    /\ [](/\ \A i \in 1..Len(sent) : sent[i].req \in ReadRequests
          /\ \A e \in AllEntities :
                e.platform = "cover" => SupportedFeatures(e) = 0
          /\ (pc = "entity_read" /\ probe[1].platform = "cover") =>
                probe[4] = Some(0))
    /\ [][(pc' = "entity_read" \/ pc = "entity_read") =>
            UNCHANGED << sent, published, auth_token, domain, entities,
                        homes, idx, data, err, outcome >>]_vars
    /\ [][pc = "entity_read" => pc' = probe[6]]_vars

\* C13 witness: a cover was read while the status request of a polling cycle
\* was awaited, and advertised no feature
C13_Witness ==
    /\ pc = "entity_read"
    /\ probe[1].platform = "cover"
    /\ probe[4] = Some(0)
    /\ probe[6] = "status_wait"
    /\ Last(sent).req = "homestatus"
    /\ ~first

-----------------------------------------------------------------------------
(* Properties of the order of the requests *)

IsFetch(r) == r.req \in { "gethomedata", "homestatus" }

\* the fetches among the requests of the cycle, in the order sent
Fetches(seq) == SelectSeq(seq, IsFetch)

\* the home-list fetch and the status fetches of the first n homes of hs
ExpectedFetches(hs, n) ==
    << ReqHomes >> \o [k \in 1..n |-> ReqStatus(hs[k])]

\* this step sent one more request, of the kind
SendsKind(kind) ==
    /\ Len(sent') = Len(sent) + 1
    /\ Last(sent').req = kind

\* the requests of the running (or last) cycle, none while the setup has not
\* come to its first refresh
CycleRequests ==
    IF pc \in { "setup_auth", "setup_auth_wait" }
       \/ (pc = "setup_failed" /\ ~first)
    THEN << >>
    ELSE CycleSent

\* the fetches of a cycle, one request per step and none while another is
\* awaited: the home list first, then the status of each home of the
\* returned list in list order, and no fetch once an operation of the cycle
\* has failed
C14_FetchOrder ==
    /\ Len(sent') <= Len(sent) + 1
    /\ Len(sent') = Len(sent) + 1 => (~Waiting /\ Waiting')
    /\ SendsKind("gethomedata") => Fetches(CycleSent) = << >>
    /\ SendsKind("homestatus") =>
          /\ homes # << >>
          /\ Last(sent') = ReqStatus(homes[idx])
          /\ Fetches(CycleSent) = ExpectedFetches(homes, idx - 1)
    /\ (err # "" /\ Len(sent') = Len(sent) + 1) => ~IsFetch(Last(sent'))
    /\ (err = "" /\ err' # "") => (pc' = "reauth" \/ CycleEnded')

\* C14 as stated: the fetches are ordered, and a token refresh comes after
\* them: no fetch of the cycle follows a refresh request.
C14_FetchesThenRefresh ==
    /\ [][C14_FetchOrder]_vars
    /\ [](\A i \in DOMAIN CycleRequests : \A k \in DOMAIN CycleRequests :
            (i < k /\ CycleSent[i] = ReqRefresh) => ~IsFetch(CycleSent[k]))

\* C14 amended: the fetches are ordered, and a token refresh comes right
\* before the fetch that needs it: the request after a refresh is that fetch
\* or, when the refresh failed, the one re-authentication, which is the last
\* request of the cycle.
C14_RefreshBeforeFetch ==
    /\ [][C14_FetchOrder]_vars
    /\ [][Sends(ReqRefresh) => (AtToken /\ pc' = RefreshWaitOf(pc))]_vars
    /\ [][(AtRefreshWait /\ pc' # pc) =>
            pc' \in { FetchAfter(pc), "reauth" }]_vars
    /\ [](\A i \in DOMAIN CycleRequests :
            /\ (CycleSent[i] = ReqRefresh /\ i < Len(CycleSent)) =>
                  \/ IsFetch(CycleSent[i + 1])
                  \/ CycleSent[i + 1] = ReqPassword
            /\ CycleSent[i] = ReqPassword =>
                  (i = Len(CycleSent) /\ i > 1 /\ CycleSent[i - 1] = ReqRefresh))
    /\ [](pc = "status_fetch" =>
            Fetches(CycleSent) = ExpectedFetches(homes, idx - 1))

\* C14 witness: a cycle over two homes returned after it refreshed the token
\* before the home-list fetch and fetched the two homes in list order
C14_Witness ==
    /\ pc = "idle"
    /\ outcome = "ok"
    /\ Len(CycleSent) >= 4
    /\ CycleSent[1] = ReqRefresh
    /\ Len(Get(last_good).homes) = 2
    /\ Fetches(CycleSent) =
          ExpectedFetches(ParseHomes(Get(last_good).homes), 2)
    /\ Get(last_good).homes[1]["id"] # Get(last_good).homes[2]["id"]

-----------------------------------------------------------------------------
(* Properties of the setup and of the unloading *)

\* C15: the setup authenticates, runs one refresh cycle, then fills the
\* registry with the coordinator, the client and the homes of the snapshot,
\* then sets the platforms up. A failed authentication sends no fetch and
\* creates no entity, a failed first refresh sets no platform up, and a
\* platform is set up only after a successful cycle has published a snapshot.
C15_SetupOrdered ==
    /\ [](/\ FirstRefreshDone => (outcome = "ok" /\ ~IsNone(published))
          /\ ~IsNone(domain) => ~IsNone(published)
          /\ platforms # {} => ~IsNone(domain)
          /\ AllEntities # {} => platforms # {}
          /\ pc = "setup_failed" =>
                (IsNone(domain) /\ platforms = {} /\ AllEntities = {})
          /\ (pc = "setup_failed" /\ ~first) => sent = << ReqPassword >>
          /\ pc = "setup_platforms" =>
                (outcome = "ok" /\ first /\ ~IsNone(published)))
    /\ [][(IsNone(domain) /\ ~IsNone(domain')) =>
            /\ outcome = "ok"
            /\ sent[1] = ReqPassword
            /\ CountReq(sent, "token:password") = 1
            /\ CountReq(sent, "gethomedata") = 1
            /\ Get(domain').homes = DictKeys(Get(published))
            /\ Get(domain').coordinator = "coordinator"
            /\ Get(domain').api_client = "api_client"
            /\ platforms = {}]_vars
    /\ [][(\E p \in PLATFORMS : p \in platforms' /\ p \notin platforms) =>
            /\ ~IsNone(domain)
            /\ ~IsNone(published) /\ ~IsNone(last_good)
            /\ published' = published /\ sent' = sent]_vars
    /\ [][(pc = "setup_auth" /\ pc' # "setup_auth") =>
            (Fetches(sent') = << >> /\ Last(sent') = ReqPassword)]_vars

\* C15 witness: the setup has returned with the three platforms set up and
\* their entities created from the snapshot of the first refresh
C15_Witness ==
    /\ Loaded
    /\ first
    /\ platforms = PLATFORMS
    /\ Len(Get(domain).homes) = 2
    /\ \E e \in AllEntities : e.home = Get(domain).homes[2]

-----------------------------------------------------------------------------
(* Properties of the re-authentication *)

\* in this step the awaited refresh request fails: no new token is stored
RefreshFails == AtRefreshWait /\ pc' # pc /\ auth_token' = auth_token

\* in this step an awaited fetch fails
FetchFails == pc \in { "homes_wait", "status_wait" } /\ err' # ""

\* C16: in a cycle a password request is sent exactly when a token refresh of
\* that cycle failed, whatever made it fail, and it is sent right after that
\* refresh; a fetch that fails, a rejection by the vendor included, ends the
\* cycle with no token request and with the stored token as it was.
C16_ReauthIffRefreshFailed ==
    /\ [][RefreshFails => (err' = "InvalidAuthError" /\ pc' = "reauth")]_vars
    /\ [][(pc = "reauth" /\ pc' # pc) => Sends(ReqPassword)]_vars
    /\ [][(pc # "setup_auth" /\ Sends(ReqPassword)) =>
            /\ sent # << >>
            /\ Last(sent) = ReqRefresh
            /\ err = "InvalidAuthError"]_vars
    /\ [][FetchFails =>
            /\ auth_token' = auth_token
            /\ sent' = sent
            /\ CycleEnded'
            /\ outcome' = "UpdateFailed"
            /\ Count(CycleSent', ReqPassword) = 0]_vars
    /\ [](CycleEnded =>
            (Count(CycleRequests, ReqPassword) = 1 <=> err = "InvalidAuthError"))
    /\ [](Count(CycleRequests, ReqPassword) <= 1)

\* C16 witness: a polling cycle whose refresh failed has re-authenticated
\* with the password and ended as a failed update
C16_Witness ==
    /\ pc = "idle"
    /\ ~first
    /\ err = "InvalidAuthError"
    /\ outcome = "UpdateFailed"
    /\ Len(sent) >= 2
    /\ sent[Len(sent) - 1] = ReqRefresh
    /\ Last(sent) = ReqPassword

\* a fetch the vendor rejected ended a polling cycle and no token was asked
C16_WitnessRejected ==
    /\ pc = "idle"
    /\ ~first
    /\ err = FetchExc("status")
    /\ Last(sent).req = "homestatus"
    /\ CountReq(sent, "token:password") = 0

-----------------------------------------------------------------------------
(* Properties of the keys of the snapshot *)

\* the ids of the homes of a raw home list
HomeIds(raw) == { raw[i]["id"] : i \in 1..Len(raw) }

\* C17: after a cycle that returned, the snapshot has exactly one entry for
\* every distinct home id of the home list the cycle fetched and no other
\* entry; the entry holds the devices of the last module list fetched for
\* that id, the empty list when every module was dropped or none was listed.
C17_KeysAreHomeIds ==
    outcome = "ok" =>
        LET log == Get(last_good)
            snap == Get(published)
        IN  /\ { snap[i].home.id : i \in 1..Len(snap) } = HomeIds(log.homes)
            /\ Len(snap) = Cardinality(HomeIds(log.homes))
            /\ \A i \in 1..Len(snap) :
                  Brief(snap[i].devices) =
                      RuleDevices(LastReplyFor(log, snap[i].home.id))

\* C17 witness: the home list named one id twice, devices were listed for
\* the first occurrence and none for the second, and the snapshot has the
\* one entry with no device
C17_Witness ==
    /\ outcome = "ok"
    /\ Len(Get(last_good).homes) = 2
    /\ Cardinality(HomeIds(Get(last_good).homes)) = 1
    /\ RuleDevices(Get(last_good).statuses[1]) # << >>
    /\ Get(last_good).statuses[2] = << >>
    /\ Len(Get(published)) = 1
    /\ Get(published)[1].devices = << >>

\* a home whose modules were all dropped is a key of the snapshot
C17_WitnessDropped ==
    /\ outcome = "ok"
    /\ Len(Get(published)) = 2
    /\ Get(last_good).statuses[2] = << ModUnknown >>
    /\ Get(published)[2].devices = << >>

-----------------------------------------------------------------------------
(* Properties of the unloading *)

\* this step is a step of async_unload_entry or of the host unloading
Unloads == unloaded' # unloaded

\* in this step async_unload_entry ends
UnloadEnds ==
    /\ unloaded \in { Some("unload_ok"), Some("unload_failed") }
    /\ unloaded' # unloaded

\* C18: unloading an entry that was set up returns without raising: True
\* when the host reports that every platform unloaded, False when it does
\* not, and in the False case the registry, the snapshot and the stored
\* token are left as they were by every step of the unloading.
C18_UnloadReturns ==
    /\ [][UnloadEnds =>
            /\ Get(unloaded') \in { "True", "False" }
            /\ Get(unloaded') = "True" <=> unloaded = Some("unload_ok")
            /\ Get(unloaded') = "True" <=> platforms = {}]_vars
    /\ [][Unloads => UNCHANGED << domain, published, auth_token >>]_vars

====
